---- MODULE Spec2Model ----
(***************************************************************************)
(* Model of app.py, the sales analytics and forecast dashboard script.     *)
(* One run of the script is a straight line of sections; each section is   *)
(* one action, and pc names the section that runs next.  Amounts are       *)
(* integers (pandas holds them as float64; rounding is not modelled), a    *)
(* date is the integer year * 1000 + day-of-year, and quotients (growth,   *)
(* regression coefficients, forecasts) are exact fractions.                *)
(***************************************************************************)
EXTENDS Integers, Sequences, FiniteSets, TLC

\* ------------------------------------------------------------------------
\* Bounds of the model
\* ------------------------------------------------------------------------
\* Largest number of rows of an uploaded sheet under Spec.
MaxRows == 2
\* Largest number of rows of an uploaded sheet under SpecTS.
MaxTSRows == 3

\* ------------------------------------------------------------------------
\* Values
\* ------------------------------------------------------------------------
\* A missing cell of an object column (pandas NaN / None).
NaN == "NaN"
\* The missing timestamp pd.to_datetime(errors="coerce") produces.
NaT == 0

\* float64 values that are not plain amounts: k is "num", "nan", "inf" or
\* "-inf"; a "num" is the exact fraction n / d with d > 0.
FNum(n, d) == [k |-> "num", n |-> n, d |-> d]
FNaN == [k |-> "nan", n |-> 0, d |-> 1]
FInf == [k |-> "inf", n |-> 0, d |-> 1]
FNegInf == [k |-> "-inf", n |-> 0, d |-> 1]

\* Series.dt.year of a timestamp.
Year(t) == t \div 1000

YEAR_MIN == 2024
YEAR_MAX == 2026
DATE_DEFAULT_FROM == 2024001
DATE_DEFAULT_TO == 2026365
FORECAST_MIN_POINTS == 3
FORECAST_DAYS == 14

\* Lexicographic order of the strings of the model (what sorted() and the
\* groupby key sort use).
StrOrder == <<"Ali", "Debtors", "Instagram", "New", "Success", "Telegram", "Vali">>
StrRank(s) == CHOOSE i \in 1..Len(StrOrder) : StrOrder[i] = s
StrLess(a, b) == StrRank(a) < StrRank(b)

\* str.lower() on the currency spellings of the model; a missing cell stays
\* missing.
str_lower(s) ==
  CASE s = "Dollar" -> "dollar"
    [] s = "DOLLAR" -> "dollar"
    [] s = "Sum" -> "sum"
    [] OTHER -> s

\* ------------------------------------------------------------------------
\* Sequences
\* ------------------------------------------------------------------------
RECURSIVE SumSeq(_)
SumSeq(s) == IF s = <<>> THEN 0 ELSE Head(s) + SumSeq(Tail(s))

\* Series.sum() of the Sum_UZS column (0 on an empty frame).
SumUZS(rows) == SumSeq([i \in 1..Len(rows) |-> rows[i].Sum_UZS])

AddCol(r, name, v) == [f \in DOMAIN r \cup {name} |-> IF f = name THEN v ELSE r[f]]

\* ------------------------------------------------------------------------
\* LOAD & PREPROCESS DATA
\* ------------------------------------------------------------------------
\* pd.to_datetime(..., dayfirst=True, errors="coerce") of one cell.
to_datetime(cell) == IF cell.kind = "date" THEN cell.val ELSE NaT

\* pd.to_numeric(..., errors="coerce") of one cell.
to_numeric(cell) == IF cell.kind = "num" THEN FNum(cell.val, 1) ELSE FNaN

\* Series.fillna(v) of one value of the Sum column.
fillna(x, v) == IF x.k = "nan" THEN v ELSE x.n

Preprocess(rows) ==
  [i \in 1..Len(rows) |->
     [rows[i] EXCEPT !.start_date = to_datetime(@),
                     !.Sum = fillna(to_numeric(@), 0)]]

\* ------------------------------------------------------------------------
\* CURRENCY NORMALIZATION
\* ------------------------------------------------------------------------
Sum_UZS(r, rate) ==
  IF str_lower(r.Currency) = "dollar" THEN r.Sum * rate ELSE r.Sum

CurrencyNormalization(rows, rate) ==
  [i \in 1..Len(rows) |-> AddCol(rows[i], "Sum_UZS", Sum_UZS(rows[i], rate))]

\* ------------------------------------------------------------------------
\* DATE FILTER (2024-2026)
\* ------------------------------------------------------------------------
InYearWindow(r) ==
  /\ r.start_date # NaT
  /\ Year(r.start_date) >= YEAR_MIN
  /\ Year(r.start_date) <= YEAR_MAX

DateFilter(rows) == SelectSeq(rows, InYearWindow)

\* ------------------------------------------------------------------------
\* SIDEBAR FILTERS
\* ------------------------------------------------------------------------
\* df[col].dropna().unique()
Options(rows, col) == {rows[i][col] : i \in 1..Len(rows)} \ {NaN}

\* Series.between(d0, d1): inclusive, False for NaT.
between(t, d0, d1) == t # NaT /\ d0 <= t /\ t <= d1

\* Keep with the responsible test inverted.
KeepUnselected(r, resp, src, dates) ==
  /\ r.Responsible \notin resp
  /\ r.Source \in src
  /\ between(r.start_date, dates[1], dates[2])

Keep(r, resp, src, dates) ==
  /\ r.Responsible \in resp
  /\ r.Source \in src
  /\ between(r.start_date, dates[1], dates[2])

FilterRows(rows, resp, src, dates) ==
  SelectSeq(rows, LAMBDA r : Keep(r, resp, src, dates))

\* ------------------------------------------------------------------------
\* KPI METRICS
\* ------------------------------------------------------------------------
StageIs(r, label) == r.Transaction_stage = label

StageRows(rows, label) == SelectSeq(rows, LAMBDA r : StageIs(r, label))

KPI(rows) ==
  [deals |-> Len(rows),
   total |-> SumUZS(rows),
   success |-> SumUZS(StageRows(rows, "Success")),
   debtors |-> SumUZS(StageRows(rows, "Debtors"))]

\* ------------------------------------------------------------------------
\* groupby(...)["Sum_UZS"].sum().reset_index()
\* ------------------------------------------------------------------------
\* The key of a row under groupby(by): by is "Responsible,Source",
\* "Transaction stage", "start date" or "Responsible".
KeyOf(r, by) ==
  CASE by = "Responsible,Source" -> <<r.Responsible, r.Source>>
    [] by = "Transaction stage" -> r.Transaction_stage
    [] by = "start date" -> r.start_date
    [] by = "Responsible" -> r.Responsible

\* A key with a missing component.
KeyIsNa(k, by) ==
  CASE by = "Responsible,Source" -> k[1] = NaN \/ k[2] = NaN
    [] by = "start date" -> k = NaT
    [] OTHER -> k = NaN

\* The ascending order of the keys.
KeyLess(a, b, by) ==
  CASE by = "Responsible,Source" ->
         StrLess(a[1], b[1]) \/ (a[1] = b[1] /\ StrLess(a[2], b[2]))
    [] by = "start date" -> a < b
    [] OTHER -> StrLess(a, b)

\* groupby drops the rows whose key has a missing component (dropna=True)
\* and lists the groups in ascending key order (sort=True).
GroupKeys(rows, by) ==
  {KeyOf(rows[i], by) : i \in {j \in 1..Len(rows) : ~KeyIsNa(KeyOf(rows[j], by), by)}}

SortKeys(S, by) ==
  CHOOSE s \in [1..Cardinality(S) -> S] :
    \A i, j \in 1..Cardinality(S) : i < j => KeyLess(s[i], s[j], by)

GroupBySum(rows, by) ==
  LET keys == SortKeys(GroupKeys(rows, by), by)
  IN [g \in 1..Len(keys) |->
        [key |-> keys[g],
         Sum_UZS |-> SumUZS(SelectSeq(rows, LAMBDA r : KeyOf(r, by) = keys[g]))]]

\* DataFrame.sort_values(by="Sum_UZS", ascending=False) with the default
\* kind="quicksort", which is not stable: every arrangement of the table in
\* non-increasing order of Sum_UZS is a possible result.
IsDescending(t) == \A i \in 1..(Len(t) - 1) : t[i].Sum_UZS >= t[i + 1].Sum_UZS

SortValuesDesc(t) ==
  LET n == Len(t)
      perms == {p \in [1..n -> 1..n] : \A i, j \in 1..n : p[i] = p[j] => i = j}
  IN {s \in {[i \in 1..n |-> t[p[i]]] : p \in perms} : IsDescending(s)}

RespSourceGroups(rows) == GroupBySum(rows, "Responsible,Source")

StageGroups(rows) == GroupBySum(rows, "Transaction stage")

\* RiskGroups without the debtor mask.
RiskGroupsUnmasked(rows) == GroupBySum(rows, "Responsible")

RiskGroups(rows) == GroupBySum(StageRows(rows, "Debtors"), "Responsible")

\* ------------------------------------------------------------------------
\* TIME SERIES & GROWTH
\* ------------------------------------------------------------------------
DateGroups(rows) == GroupBySum(rows, "start date")

\* One value of Series.pct_change() * 100: cur / prev - 1, times 100, in
\* float64 arithmetic (x / 0 is inf or -inf by the sign of x, 0 / 0 is nan).
PctChange100(prev, cur) ==
  IF prev = 0
  THEN IF cur > 0 THEN FInf ELSE IF cur < 0 THEN FNegInf ELSE FNaN
  ELSE IF prev > 0 THEN FNum((cur - prev) * 100, prev)
       ELSE FNum((prev - cur) * 100, 0 - prev)

Growth(g, i) == IF i = 1 THEN FNaN ELSE PctChange100(g[i - 1].Sum_UZS, g[i].Sum_UZS)

TimeSeries(rows) ==
  LET g == DateGroups(rows)
  IN [i \in 1..Len(g) |->
        [start_date |-> g[i].key, Sum_UZS |-> g[i].Sum_UZS, Growth |-> Growth(g, i)]]

\* ------------------------------------------------------------------------
\* FORECASTING (ML)
\* ------------------------------------------------------------------------
\* LinearRegression().fit(idx, Sum_UZS) with idx = 0..N-1: the closed-form
\* least-squares slope and intercept, as fractions.
SumIdx(n) == SumSeq([i \in 1..n |-> i - 1])
SumIdxSq(n) == SumSeq([i \in 1..n |-> (i - 1) * (i - 1)])
SumIdxY(y) == SumSeq([i \in 1..Len(y) |-> (i - 1) * y[i]])

Fit(y) ==
  LET n == Len(y)
      den == n * SumIdxSq(n) - SumIdx(n) * SumIdx(n)
      num == n * SumIdxY(y) - SumIdx(n) * SumSeq(y)
  IN [coef |-> FNum(num, den),
      intercept |-> FNum(SumSeq(y) * den - num * SumIdx(n), n * den)]

\* model.predict at index x: intercept + coef * x.
Predict(m, x) ==
  FNum(m.intercept.n * m.coef.d + m.coef.n * x * m.intercept.d,
       m.intercept.d * m.coef.d)

\* HasForecast with the threshold one lower.
HasForecastFromTwo(series) == Len(series) >= FORECAST_MIN_POINTS - 1

HasForecast(series) == Len(series) >= FORECAST_MIN_POINTS

\* y = ts["Sum_UZS"]
Target(series) == [i \in 1..Len(series) |-> series[i].Sum_UZS]

\* Forecast with the future indices starting one late.
ForecastFromNextIndex(m, n) ==
  [k \in 1..FORECAST_DAYS |->
     [Day |-> k, Forecast_Revenue |-> Predict(m, n + k)]]

\* forecast_df: model.predict(np.arange(n, n + 14)) against Day = 1..14.
Forecast(m, n) ==
  [k \in 1..FORECAST_DAYS |->
     [Day |-> k, Forecast_Revenue |-> Predict(m, n + k - 1)]]

\* ts["idx"] = np.arange(len(ts))
WithIdx(series) == [i \in 1..Len(series) |-> AddCol(series[i], "idx", i - 1)]

\* ------------------------------------------------------------------------
\* Inputs
\* ------------------------------------------------------------------------
DateCell(t) == [kind |-> "date", val |-> t]
NumCell(n) == [kind |-> "num", val |-> n]
TextCell == [kind |-> "text", val |-> 0]

RawRow(date, sum, cur, resp, src, stage) ==
  [start_date |-> date, Sum |-> sum, Currency |-> cur, Responsible |-> resp,
   Source |-> src, Transaction_stage |-> stage]

BaseRow == RawRow(DateCell(2024010), NumCell(1), "sum", "Ali", "Instagram", "Debtors")

\* The base row and every row that differs from it in one cell.
SampleRows ==
  {BaseRow}
  \cup {[BaseRow EXCEPT !.start_date = c] : c \in {DateCell(2024020), DateCell(2023300), TextCell}}
  \cup {[BaseRow EXCEPT !.Sum = c] : c \in {NumCell(0 - 2), TextCell}}
  \cup {[BaseRow EXCEPT !.Currency = c] : c \in {"Dollar", NaN}}
  \cup {[BaseRow EXCEPT !.Responsible = c] : c \in {"Vali", NaN}}
  \cup {[BaseRow EXCEPT !.Source = c] : c \in {"Telegram", NaN}}
  \cup {[BaseRow EXCEPT !.Transaction_stage = c] : c \in {"Success", NaN}}

\* Rows of one deal owner and source on different days, for the time series.
SeriesRows ==
  {RawRow(DateCell(t), NumCell(n), "sum", "Ali", "Instagram", "Success") :
     t \in {2024010, 2024020, 2025100, 2026200}, n \in {10, 20, 30}}

Sheets(rowset, n) == UNION {[1..k -> rowset] : k \in 0..n}

\* The values typed into the exchange-rate input (its default, 12500, is
\* replaced by small rates to keep the products small).
Rates == {2, 10}

\* The ranges the date input takes: the default and some others.
DateRanges ==
  {<<DATE_DEFAULT_FROM, DATE_DEFAULT_TO>>, <<2023001, DATE_DEFAULT_TO>>,
   <<2024015, DATE_DEFAULT_TO>>, <<2024015, 2024015>>}

RequiredColumns == {"start_date", "Sum", "Responsible", "Transaction_stage"}
OptionalColumns == {"Currency", "Source"}

\* The sheet read from the file: only the columns the file has.
ReadExcel(rows, columns) ==
  [i \in 1..Len(rows) |-> [f \in columns |-> rows[i][f]]]

\* ------------------------------------------------------------------------
\* State
\* ------------------------------------------------------------------------
VARIABLES
  pc,                 \* the section that runs next, "done" or "error"
  err,                \* the exception that stopped the run, or "none"
  USD_TO_UZS,         \* the exchange rate input
  uploaded_file,      \* [columns, rows]: the uploaded sheet
  df,                 \* the data frame
  responsible_filter, \* the selected responsibles
  source_filter,      \* the selected sources
  date_filter,        \* the selected date range <<d0, d1>>
  df_f,               \* the filtered frame
  kpi,                \* the four metrics
  resp_source_df,
  stage_df,
  ts,
  risk_df,
  model,              \* the fitted regression: coef_ and intercept_
  forecast            \* the forecast table, or <<>> with the warning shown

vars == <<pc, err, USD_TO_UZS, uploaded_file, df, responsible_filter, source_filter,
          date_filter, df_f, kpi, resp_source_df, stage_df, ts, risk_df, model, forecast>>

config == <<USD_TO_UZS, uploaded_file>>
outputs == <<df_f, kpi, resp_source_df, stage_df, ts, risk_df, model, forecast>>
selection == <<responsible_filter, source_filter, date_filter>>

NoKPI == [deals |-> 0, total |-> 0, success |-> 0, debtors |-> 0]
NoModel == [coef |-> FNaN, intercept |-> FNaN]

InitWith(sheets, rates) ==
  /\ pc = "load"
  /\ err = "none"
  /\ USD_TO_UZS \in rates
  /\ \E rows \in sheets, opt \in SUBSET OptionalColumns :
       uploaded_file = [columns |-> RequiredColumns \cup opt,
                        rows |-> ReadExcel(rows, RequiredColumns \cup opt)]
  /\ df = <<>>
  /\ responsible_filter = {}
  /\ source_filter = {}
  /\ date_filter = <<DATE_DEFAULT_FROM, DATE_DEFAULT_TO>>
  /\ df_f = <<>>
  /\ kpi = NoKPI
  /\ resp_source_df = <<>>
  /\ stage_df = <<>>
  /\ ts = <<>>
  /\ risk_df = <<>>
  /\ model = NoModel
  /\ forecast = <<>>

Init == InitWith(Sheets(SampleRows, MaxRows), Rates)
\* The series rows are all in base currency: one rate is enough.
InitTS == InitWith(Sheets(SeriesRows, MaxTSRows), {10})

Raise(e) == pc' = "error" /\ err' = e

\* Lines 50-58.
Load ==
  /\ pc = "load"
  /\ df' = Preprocess(uploaded_file.rows)
  /\ pc' = "normalize"
  /\ UNCHANGED <<err, config, selection, outputs>>

\* Lines 65-69; df["Currency"] raises KeyError when the sheet has no such column.
Normalize ==
  /\ pc = "normalize"
  /\ IF "Currency" \in uploaded_file.columns
     THEN /\ df' = CurrencyNormalization(df, USD_TO_UZS)
          /\ pc' = "date_filter"
          /\ err' = err
     ELSE /\ Raise("KeyError: 'Currency'")
          /\ df' = df
  /\ UNCHANGED <<config, selection, outputs>>

\* Lines 76-79.
YearFilter ==
  /\ pc = "date_filter"
  /\ df' = DateFilter(df)
  /\ pc' = "sidebar"
  /\ UNCHANGED <<err, config, selection, outputs>>

\* Lines 86-112: the three inputs and the filtered frame; df["Source"] raises
\* KeyError when the sheet has no such column, after the responsible input
\* is read.
SidebarFilters ==
  /\ pc = "sidebar"
  /\ \E resp \in SUBSET Options(df, "Responsible") :
       /\ responsible_filter' = resp
       /\ IF "Source" \in uploaded_file.columns
          THEN \E src \in SUBSET Options(df, "Source"), dates \in DateRanges :
                 /\ source_filter' = src
                 /\ date_filter' = dates
                 /\ df_f' = FilterRows(df, resp, src, dates)
                 /\ pc' = "kpi"
                 /\ err' = err
          ELSE /\ Raise("KeyError: 'Source'")
               /\ UNCHANGED <<source_filter, date_filter, df_f>>
  /\ UNCHANGED <<config, df, kpi, resp_source_df, stage_df, ts, risk_df, model, forecast>>

\* Lines 119-130.
Metrics ==
  /\ pc = "kpi"
  /\ kpi' = KPI(df_f)
  /\ pc' = "resp_source"
  /\ UNCHANGED <<err, config, df, selection, df_f, resp_source_df, stage_df, ts, risk_df, model, forecast>>

\* Lines 139-144.
RespSource ==
  /\ pc = "resp_source"
  /\ resp_source_df' \in SortValuesDesc(RespSourceGroups(df_f))
  /\ pc' = "stage"
  /\ UNCHANGED <<err, config, df, selection, df_f, kpi, stage_df, ts, risk_df, model, forecast>>

\* Lines 164-168.
Stage ==
  /\ pc = "stage"
  /\ stage_df' = StageGroups(df_f)
  /\ pc' = "ts"
  /\ UNCHANGED <<err, config, df, selection, df_f, kpi, resp_source_df, ts, risk_df, model, forecast>>

\* Lines 186-193.
Trend ==
  /\ pc = "ts"
  /\ ts' = TimeSeries(df_f)
  /\ pc' = "risk"
  /\ UNCHANGED <<err, config, df, selection, df_f, kpi, resp_source_df, stage_df, risk_df, model, forecast>>

\* Lines 223-231.
Risk ==
  /\ pc = "risk"
  /\ risk_df' \in SortValuesDesc(RiskGroups(df_f))
  /\ pc' = "forecast"
  /\ UNCHANGED <<err, config, df, selection, df_f, kpi, resp_source_df, stage_df, ts, model, forecast>>

\* Lines 241-269.
Forecasting ==
  /\ pc = "forecast"
  /\ IF HasForecast(ts)
     THEN /\ ts' = WithIdx(ts)
          /\ model' = Fit(Target(ts))
          /\ forecast' = Forecast(model', Len(ts))
     ELSE /\ ts' = ts
          /\ model' = model
          /\ forecast' = <<>>
  /\ pc' = "done"
  /\ UNCHANGED <<err, config, df, selection, df_f, kpi, resp_source_df, stage_df, risk_df>>

Next ==
  \/ Load
  \/ Normalize
  \/ YearFilter
  \/ SidebarFilters
  \/ Metrics
  \/ RespSource
  \/ Stage
  \/ Trend
  \/ Risk
  \/ Forecasting

Spec == Init /\ [][Next]_vars
SpecTS == InitTS /\ [][Next]_vars

\* ------------------------------------------------------------------------
\* Properties
\* ------------------------------------------------------------------------
\* The filtered frame exists.
Filtered == pc \in {"kpi", "resp_source", "stage", "ts", "risk", "forecast", "done"}

\* The cleaned, currency-normalized records of the sheet, before any filter.
Normalized == CurrencyNormalization(Preprocess(uploaded_file.rows), USD_TO_UZS)

KeysOf(t) == {t[i].key : i \in 1..Len(t)}
TableTotal(t, k) == SumUZS(SelectSeq(t, LAMBDA g : g.key = k))
ByDate(series) ==
  [i \in 1..Len(series) |-> [key |-> series[i].start_date, Sum_UZS |-> series[i].Sum_UZS]]

\* C1: once the run is complete, the group totals of each grouped view (by
\* responsible x source, by transaction stage, by date) add up to the KPI
\* total revenue of the filtered frame, also when a grouping key is missing.
SumConservation ==
  pc = "done" =>
    /\ SumUZS(resp_source_df) = kpi.total
    /\ SumUZS(stage_df) = kpi.total
    /\ SumUZS(ts) = kpi.total

\* The filter predicate as stated: the source test is skipped when the sheet
\* has no Source column.
SpecKeep(r) ==
  /\ r.Responsible \in responsible_filter
  /\ ("Source" \notin uploaded_file.columns \/ r.Source \in source_filter)
  /\ r.start_date # NaT
  /\ date_filter[1] <= r.start_date
  /\ r.start_date <= date_filter[2]

\* C2: the run never fails for want of a Source column, and the filtered
\* frame holds exactly the normalized records whose responsible is selected,
\* whose source is selected (when the sheet has sources) and whose date is
\* known and inside the selected range; no other step removes such a record.
FilterPredicate ==
  /\ err # "KeyError: 'Source'"
  /\ Filtered => df_f = SelectSeq(Normalized, SpecKeep)

\* A selection at most as wide as the current one in responsibles and dates.
Within(dates1, dates2) == dates2[1] <= dates1[1] /\ dates1[2] <= dates2[2]

LeqTables(t1, t2) ==
  \A k \in KeysOf(t1) \cup KeysOf(t2) : TableTotal(t1, k) <= TableTotal(t2, k)

\* Every aggregate total of the selection (resp1, dates1) is at most the
\* total the run computed.
NoLargerAt(resp1, dates1) ==
  LET rows1 == FilterRows(df, resp1, source_filter, dates1)
  IN /\ KPI(rows1).total <= kpi.total
     /\ KPI(rows1).success <= kpi.success
     /\ KPI(rows1).debtors <= kpi.debtors
     /\ LeqTables(RespSourceGroups(rows1), resp_source_df)
     /\ LeqTables(StageGroups(rows1), stage_df)
     /\ LeqTables(DateGroups(rows1), ByDate(ts))
     /\ LeqTables(RiskGroups(rows1), risk_df)

NoLargerWhenNarrowed ==
  \A resp1 \in SUBSET responsible_filter, dates1 \in DateRanges :
    Within(dates1, date_filter) => NoLargerAt(resp1, dates1)

\* C3 as stated: whatever the signs of the amounts, no selection with fewer
\* responsibles or a narrower date range has a larger aggregate total than
\* the completed run's.
FilterMonotonicity == pc = "done" => NoLargerWhenNarrowed

NonNegativeAmounts == \A i \in 1..Len(Normalized) : Normalized[i].Sum_UZS >= 0

\* C3 amended: when no record of the sheet has a negative base-currency
\* amount, no selection with fewer responsibles or a narrower date range has
\* a larger aggregate total than the completed run's.
FilterMonotonicityNonNegative ==
  (pc = "done" /\ NonNegativeAmounts) => NoLargerWhenNarrowed

\* A completed run over non-negative amounts whose total strictly exceeds the
\* total of a selection with fewer responsibles.
FilterMonotonicityWitness ==
  /\ pc = "done"
  /\ NonNegativeAmounts
  /\ \E resp1 \in SUBSET responsible_filter :
       /\ resp1 # responsible_filter
       /\ resp1 # {}
       /\ KPI(FilterRows(df, resp1, source_filter, date_filter)).total < kpi.total

\* The foreign currency code, compared without regard to case.
IsForeign(c) == c \in {"dollar", "Dollar", "DOLLAR"}

ExampleAmounts ==
  LET rows == <<[Sum |-> 100, Currency |-> "Dollar"], [Sum |-> 50, Currency |-> "sum"]>>
      out == CurrencyNormalization(rows, 10)
  IN [i \in 1..Len(out) |-> out[i].Sum_UZS]

\* C4: the run never fails for want of a Currency column, and after the
\* normalization every record's Sum_UZS is Sum x rate when its currency is
\* the foreign code in any case, and Sum otherwise (also when the record has
\* no currency); amounts [100 foreign, 50 base] at rate 10 give [1000, 50].
CurrencyNormalized ==
  /\ err # "KeyError: 'Currency'"
  /\ ExampleAmounts = <<1000, 50>>
  /\ pc \notin {"load", "normalize", "error"} =>
       \A i \in 1..Len(df) :
         df[i].Sum_UZS = IF IsForeign(df[i].Currency)
                         THEN df[i].Sum * USD_TO_UZS
                         ELSE df[i].Sum

\* The risk label of a record: the mask of the debtor views, named.
RiskLabel(r) == IF r.Transaction_stage = "Debtors" THEN "High Risk" ELSE "Normal"
LabelTotal(rows, label) == SumUZS(SelectSeq(rows, LAMBDA r : RiskLabel(r) = label))

HasSeries == pc \in {"risk", "forecast", "done"}

\* C6: in the time series the growth of point i is the number
\* (sum[i] - sum[i-1]) / sum[i-1] x 100 when i is not the first point and
\* sum[i-1] is not zero, and the missing-value marker otherwise; it is never
\* an infinity.
GrowthDefined ==
  HasSeries =>
    \A i \in 1..Len(ts) :
      IF i >= 2 /\ ts[i - 1].Sum_UZS # 0
      THEN /\ ts[i].Growth.k = "num"
           /\ ts[i].Growth.n * ts[i - 1].Sum_UZS
                = (ts[i].Sum_UZS - ts[i - 1].Sum_UZS) * 100 * ts[i].Growth.d
      ELSE ts[i].Growth = FNaN

\* C7: the forecast section produces a forecast exactly when the time series
\* has at least 3 points; on a shorter series it ends the run normally with
\* no forecast and leaves the filtered frame, the KPIs, the grouped tables
\* and the time series as they were.
ForecastThreshold ==
  [][pc = "forecast" =>
       /\ (forecast' # <<>>) <=> (Len(ts) >= 3)
       /\ Len(ts) < 3 =>
            /\ forecast' = <<>>
            /\ pc' = "done"
            /\ err' = "none"
            /\ UNCHANGED <<df_f, kpi, resp_source_df, stage_df, ts, risk_df>>]_vars

\* A completed run on a two-point series, with no forecast.
ForecastThresholdWitness ==
  /\ pc = "done"
  /\ Len(ts) = 2
  /\ forecast = <<>>
  /\ err = "none"

FracEq(a, b) == a.k = "num" /\ b.k = "num" /\ a.n * b.d = b.n * a.d

\* The line a + b x satisfies the least-squares normal equations for the
\* points (i - 1, y[i]): the residuals and the index-weighted residuals both
\* sum to zero.
IsLeastSquares(a, b, y) ==
  LET n == Len(y)
  IN /\ a.k = "num" /\ b.k = "num"
     /\ SumSeq(y) * a.d * b.d = n * a.n * b.d + b.n * SumIdx(n) * a.d
     /\ SumIdxY(y) * a.d * b.d = a.n * SumIdx(n) * b.d + b.n * SumIdxSq(n) * a.d

\* The value of the line a + b x at x.
OnLine(v, a, b, x) ==
  /\ v.k = "num"
  /\ v.n * a.d * b.d = (a.n * b.d + b.n * x * a.d) * v.d

\* C8: a forecast has 14 points with Day = 1..14, and the point of Day k is
\* the least-squares line through (index, sum) of the N observed points,
\* taken at index N + k - 1, whatever the dates are; for the series
\* [10, 20, 30] the line is 10 + 10 x index and the first forecast is 40.
ForecastValues ==
  (pc = "done" /\ forecast # <<>>) =>
    LET y == Target(ts)
        n == Len(ts)
    IN /\ Len(forecast) = 14
       /\ IsLeastSquares(model.intercept, model.coef, y)
       /\ \A k \in 1..14 :
            /\ forecast[k].Day = k
            /\ OnLine(forecast[k].Forecast_Revenue, model.intercept, model.coef, n + k - 1)
       /\ y = <<10, 20, 30>> =>
            /\ FracEq(model.intercept, FNum(10, 1))
            /\ FracEq(model.coef, FNum(10, 1))
            /\ FracEq(forecast[1].Forecast_Revenue, FNum(40, 1))

\* A completed run on the series [10, 20, 30] over unevenly spaced dates.
ForecastValuesWitness ==
  /\ pc = "done"
  /\ forecast # <<>>
  /\ Target(ts) = <<10, 20, 30>>
  /\ ts[2].start_date - ts[1].start_date # ts[3].start_date - ts[2].start_date

\* The sidebar section has read its inputs.
Selected == Filtered \/ err = "KeyError: 'Source'"

EmptySelection ==
  \/ responsible_filter = {}
  \/ "Source" \in uploaded_file.columns /\ source_filter = {}
  \/ \A i \in 1..Len(df) : ~between(df[i].start_date, date_filter[1], date_filter[2])

\* C9: once the selection is read and it is empty (no responsible, no source,
\* or a date range with no record), the run raises no error, and when it
\* completes the filtered frame, every grouped table and the time series are
\* empty, the four KPIs are zero and there is no forecast.
EmptySelectionEmptyResult ==
  (Selected /\ EmptySelection) =>
    /\ err = "none"
    /\ pc # "error"
    /\ pc = "done" =>
         /\ df_f = <<>>
         /\ kpi = [deals |-> 0, total |-> 0, success |-> 0, debtors |-> 0]
         /\ resp_source_df = <<>>
         /\ stage_df = <<>>
         /\ ts = <<>>
         /\ risk_df = <<>>
         /\ forecast = <<>>

\* Non-increasing sums, and ascending keys among equal sums.
Ranked(t, by) ==
  \A i, j \in 1..Len(t) :
    i < j => /\ t[i].Sum_UZS >= t[j].Sum_UZS
             /\ t[i].Sum_UZS = t[j].Sum_UZS => KeyLess(t[i].key, t[j].key, by)

\* C10: in a completed run both ranked tables (revenue by responsible x
\* source, debtor revenue by responsible) are in non-increasing order of
\* their sums, and groups with equal sums are in ascending key order.
RankedOrdering ==
  pc = "done" =>
    /\ Ranked(resp_source_df, "Responsible,Source")
    /\ Ranked(risk_df, "Responsible")

====
